---- MODULE Spec2Model ----
(***************************************************************************)
(* A model of timesheet_parser.py: the activity log (local timestamp ->     *)
(* activity), the interval generator get_activity_timings, the weekly      *)
(* tally get_weekly_info, the week-over-week trend get_wow_changes, the    *)
(* folds daily_statistics and get_overall_actitivity_info, the reports     *)
(* get_daily_statistics and get_activity_statistics, and the loader        *)
(* get_activities_in_localtime.                                            *)
(*                                                                         *)
(* Python strings are sequences of character codes, so that formatting,    *)
(* parsing and lexicographic sorting are computed, not assumed.  Python    *)
(* floats are exact rationals [num, den] in lowest terms.                  *)
(***************************************************************************)
EXTENDS Integers, Sequences, FiniteSets, TLC

VARIABLES
    localtime_activities,  \* dict: local timestamp string -> activity
    entry,                 \* the entry point that has run ("none" before)
    filter_off,            \* argument of get_activity_timings
    weeks_ago,             \* argument of get_wow_changes
    timings,               \* tuples yielded by get_activity_timings
    warnings,              \* number of long-interval warnings printed
    weekly_info,           \* result of get_weekly_info
    wow_change,            \* result of get_wow_changes
    daily_stats,           \* result of daily_statistics
    overall_info,          \* result of get_overall_actitivity_info
    report,                \* what a statistics report has printed
    fault,                 \* the exception that ended the call ("none" if none)
    log_files,             \* the lines of the log files, as read from disk
    to_zone,               \* the local zone: hours east of UTC
    diagnostics,           \* number of timestamp diagnostics printed
    sample_list,           \* argument of medium_mins
    medium                 \* result of medium_mins

\* the state that the entry points working on a loaded log leave alone
other_vars == <<log_files, to_zone, diagnostics, sample_list, medium>>

vars == <<localtime_activities, entry, filter_off, weeks_ago, timings,
          warnings, weekly_info, wow_change, daily_stats, overall_info,
          report, fault, log_files, to_zone, diagnostics, sample_list, medium>>

---------------------------------------------------------------------------
(* Bounds of the model *)

\* largest number of log entries in the activity log
MaxEvents == 6

\* largest weeks_ago passed to get_wow_changes
MaxWeeksAgo == 2

\* the largest number of lines in the log files of the loader
MaxLines == 3

\* the largest length of a sample list handed to medium_mins
MaxSamples == 4

---------------------------------------------------------------------------
(* Strings *)

\* code of the character '-'
DashChar == 45

\* code of the character '0'
ZeroChar == 48

\* '{0}'.format(n) for an integer n
RECURSIVE IntToStr(_)
IntToStr(n) ==
    IF n < 0 THEN <<DashChar>> \o IntToStr(-n)
    ELSE IF n < 10 THEN <<ZeroChar + n>>
    ELSE IntToStr(n \div 10) \o <<ZeroChar + (n % 10)>>

\* int(s) for a string of decimal digits
RECURSIVE StrToInt(_)
StrToInt(s) ==
    IF Len(s) = 0 THEN 0
    ELSE 10 * StrToInt(SubSeq(s, 1, Len(s) - 1)) + (s[Len(s)] - ZeroChar)

\* a strftime field of fixed width, zero padded (%Y, %m, %d, %H, %M, %S)
RECURSIVE ZeroPad(_, _)
ZeroPad(n, width) ==
    IF width = 0 THEN <<>>
    ELSE ZeroPad(n \div 10, width - 1) \o <<ZeroChar + (n % 10)>>

\* Python's s < t on strings, compared from position i on
RECURSIVE LexLessFrom(_, _, _)
LexLessFrom(s, t, i) ==
    IF i > Len(t) THEN FALSE
    ELSE IF i > Len(s) THEN TRUE
    ELSE IF s[i] = t[i] THEN LexLessFrom(s, t, i + 1)
    ELSE s[i] < t[i]

\* Python's s < t on strings: lexicographic on character codes
LexLess(s, t) == LexLessFrom(s, t, 1)

\* the sorted list sorted_keys with the string k put in its place
RECURSIVE SortedInsert(_, _)
SortedInsert(k, sorted_keys) ==
    IF sorted_keys = <<>> THEN <<k>>
    ELSE IF LexLess(k, Head(sorted_keys)) THEN <<k>> \o sorted_keys
    ELSE <<Head(sorted_keys)>> \o SortedInsert(k, Tail(sorted_keys))

\* sorted(S) for a set of strings
RECURSIVE SortedKeys(_)
SortedKeys(S) ==
    IF S = {} THEN <<>>
    ELSE LET k == CHOOSE x \in S : TRUE
         IN  SortedInsert(k, SortedKeys(S \ {k}))

\* s.split('-') of a string holding one '-'
SplitDash(s) ==
    LET p == CHOOSE i \in 1..Len(s) : s[i] = DashChar /\ \A j \in 1..(i - 1) : s[j] # DashChar
    IN  <<SubSeq(s, 1, p - 1), SubSeq(s, p + 1, Len(s))>>

---------------------------------------------------------------------------
(* Dates: datetime.strptime, strftime, subtraction and isocalendar *)

\* LOG_TIMESTAMP_FORMAT = '%Y%m%d%H%M%S'
Strftime(dt) ==
    ZeroPad(dt.year, 4) \o ZeroPad(dt.month, 2) \o ZeroPad(dt.day, 2)
        \o ZeroPad(dt.hour, 2) \o ZeroPad(dt.minute, 2) \o ZeroPad(dt.second, 2)

Strptime(ts) ==
    [year   |-> StrToInt(SubSeq(ts, 1, 4)),
     month  |-> StrToInt(SubSeq(ts, 5, 6)),
     day    |-> StrToInt(SubSeq(ts, 7, 8)),
     hour   |-> StrToInt(SubSeq(ts, 9, 10)),
     minute |-> StrToInt(SubSeq(ts, 11, 12)),
     second |-> StrToInt(SubSeq(ts, 13, 14))]

IsLeap(y) == y % 4 = 0 /\ (y % 100 # 0 \/ y % 400 = 0)

DaysBeforeYear(y) ==
    (y - 1) * 365 + ((y - 1) \div 4) - ((y - 1) \div 100) + ((y - 1) \div 400)

DaysBeforeMonth(y, m) ==
    <<0, 31, 59, 90, 120, 151, 181, 212, 243, 273, 304, 334>>[m]
        + (IF m > 2 /\ IsLeap(y) THEN 1 ELSE 0)

\* proleptic Gregorian ordinal of a date, 1 = 0001-01-01
Ymd2Ord(y, m, d) == DaysBeforeYear(y) + DaysBeforeMonth(y, m) + d

\* ordinal of the Monday that starts ISO week 1 of year y
IsoWeek1Monday(y) ==
    LET firstday     == Ymd2Ord(y, 1, 1)
        firstweekday == (firstday + 6) % 7
        week1monday  == firstday - firstweekday
    IN  IF firstweekday > 3 THEN week1monday + 7 ELSE week1monday

\* datetime.isocalendar(): <<ISO year, ISO week, ISO weekday>>
IsoCalendar(dt) ==
    LET today == Ymd2Ord(dt.year, dt.month, dt.day)
        w0    == (today - IsoWeek1Monday(dt.year)) \div 7
        d0    == (today - IsoWeek1Monday(dt.year)) % 7
    IN  IF w0 < 0
        THEN <<dt.year - 1,
               ((today - IsoWeek1Monday(dt.year - 1)) \div 7) + 1,
               ((today - IsoWeek1Monday(dt.year - 1)) % 7) + 1>>
        ELSE IF w0 >= 52 /\ today >= IsoWeek1Monday(dt.year + 1)
        THEN <<dt.year + 1, 1, d0 + 1>>
        ELSE <<dt.year, w0 + 1, d0 + 1>>

SecondOfDay(dt) == dt.hour * 3600 + dt.minute * 60 + dt.second

\* time_diff = end_time - start_time; time_diff.days * 24 * 3600 + time_diff.seconds
TimeDelta(end_time, start_time) ==
    LET total == (Ymd2Ord(end_time.year, end_time.month, end_time.day)
                    - Ymd2Ord(start_time.year, start_time.month, start_time.day)) * 86400
                 + (SecondOfDay(end_time) - SecondOfDay(start_time))
        days    == total \div 86400
        seconds == total % 86400
    IN  days * 24 * 3600 + seconds

---------------------------------------------------------------------------
(* The activity log *)

Activities == {"Off", "Coding", "Meetings"}

Stamp(y, m, d, H, M, S) ==
    [year |-> y, month |-> m, day |-> d, hour |-> H, minute |-> M, second |-> S]

\* local times at which the log may hold an entry, oldest first
LogTimes ==
    << Stamp(2023, 12,  4,  9,  0,  0),
       Stamp(2023, 12,  8,  9,  0,  0),
       Stamp(2023, 12, 13, 17,  0,  0),
       Stamp(2023, 12, 24, 23, 59, 59),
       Stamp(2023, 12, 25,  0,  0,  0),
       Stamp(2024,  1,  2,  9,  0,  0),
       Stamp(2024,  1,  2, 10,  0,  0),
       Stamp(2024,  1, 16,  9,  0,  0),
       Stamp(2024,  1, 22,  9,  0,  0),
       Stamp(2024,  1, 29,  9,  0,  0),
       Stamp(2024,  1, 29, 10,  0,  0),
       Stamp(2024,  1, 29, 12,  0,  0),
       Stamp(2024,  1, 29, 13,  0,  0),
       Stamp(2024,  2,  4, 20,  0,  0),
       Stamp(2024,  2,  5,  9,  0,  0),
       Stamp(2024,  2,  5, 17,  0,  0),
       Stamp(2024,  2,  6,  9,  0,  0),
       Stamp(2024,  2, 12,  9,  0,  0) >>

\* the positions in LogTimes that one log directory can cover: the entries of
\* a log are consecutive times of one period
Periods == {1..7, 6..10, 10..13, 14..18}

EmptyDict == [k \in {} |-> 0]

\* d[k] = v on a dict
DictSet(d, k, v) == [x \in (DOMAIN d) \cup {k} |-> IF x = k THEN v ELSE d[x]]

\* sorted(get_activities_in_localtime().items(), key=lambda t: t[0]) as a list
GetOrderedActivityTimestamps(activities) ==
    LET keys == SortedKeys(DOMAIN activities)
    IN  [i \in 1..Len(keys) |-> <<keys[i], activities[keys[i]]>>]

---------------------------------------------------------------------------
(* get_activity_timings *)

\* a variant of TimingAt that labels the interval with the ending event's
\* activity
TimingAtEndLabel(ordered, filterOff, x) ==
    LET end_ts     == ordered[x + 1][1]
        end_time   == Strptime(end_ts)
        start_time == Strptime(ordered[x][1])
        iso        == IsoCalendar(end_time)
    IN  IF filterOff /\ ordered[x][2] = "Off"
        THEN <<>>
        ELSE << [activity    |-> ordered[x + 1][2],
                 year        |-> iso[1],
                 week        |-> iso[2],
                 day_of_week |-> iso[3],
                 time_delta  |-> TimeDelta(end_time, start_time),
                 end_ts      |-> end_ts] >>

\* a variant of TimingAt that skips the pairs whose ending event is "Off"
TimingAtFilterEnd(ordered, filterOff, x) ==
    LET end_ts     == ordered[x + 1][1]
        end_time   == Strptime(end_ts)
        start_time == Strptime(ordered[x][1])
        iso        == IsoCalendar(end_time)
    IN  IF filterOff /\ ordered[x + 1][2] = "Off"
        THEN <<>>
        ELSE << [activity    |-> ordered[x][2],
                 year        |-> iso[1],
                 week        |-> iso[2],
                 day_of_week |-> iso[3],
                 time_delta  |-> TimeDelta(end_time, start_time),
                 end_ts      |-> end_ts] >>

\* the body of the loop for index x (zero based, as in the code): the tuple
\* yielded, or <<>> when the pair is skipped.  The field end_ts records the
\* loop's end_ts at the yield; it is not part of the tuple and no consumer
\* reads it.
TimingAt(ordered, filterOff, x) ==
    LET end_ts         == ordered[x + 1][1]
        start_ts       == ordered[x][1]
        start_activity == ordered[x][2]
        end_time       == Strptime(end_ts)
        start_time     == Strptime(start_ts)
        iso            == IsoCalendar(end_time)
    IN  IF filterOff /\ start_activity = "Off"
        THEN <<>>
        ELSE << [activity    |-> start_activity,
                 year        |-> iso[1],
                 week        |-> iso[2],
                 day_of_week |-> iso[3],
                 time_delta  |-> TimeDelta(end_time, start_time),
                 end_ts      |-> end_ts] >>

\* a variant of TimingsFrom that walks down to the oldest pair
RECURSIVE TimingsFromOldestPair(_, _, _)
TimingsFromOldestPair(ordered, filterOff, x) ==
    IF x <= 0 THEN <<>>
    ELSE TimingAt(ordered, filterOff, x) \o TimingsFromOldestPair(ordered, filterOff, x - 1)

\* for x in range(len(ordered_timestamps) - 1, 1, -1)
RECURSIVE TimingsFrom(_, _, _)
TimingsFrom(ordered, filterOff, x) ==
    IF x <= 1 THEN <<>>
    ELSE TimingAt(ordered, filterOff, x) \o TimingsFrom(ordered, filterOff, x - 1)

GetActivityTimings(activities, filterOff) ==
    LET ordered == GetOrderedActivityTimestamps(activities)
    IN  TimingsFrom(ordered, filterOff, Len(ordered) - 1)

\* the warnings printed for intervals of more than 15 hours
LongIntervalWarnings(ts) ==
    Cardinality({i \in 1..Len(ts) : ts[i].time_delta > 15 * 3600})

---------------------------------------------------------------------------
(* Floats, as exact rationals in lowest terms *)

RECURSIVE GCD(_, _)
GCD(a, b) == IF b = 0 THEN a ELSE GCD(b, a % b)

Abs(n) == IF n < 0 THEN -n ELSE n

\* the rational n / d, d # 0
Rat(n, d) ==
    LET g == GCD(Abs(n), Abs(d))
        s == IF d < 0 THEN -1 ELSE 1
    IN  [num |-> (s * n) \div g, den |-> (s * d) \div g]

RInt(n) == [num |-> n, den |-> 1]

RSub(a, b) == Rat(a.num * b.den - b.num * a.den, a.den * b.den)

RMul(a, b) ==
    LET g1 == GCD(Abs(a.num), b.den)
        g2 == GCD(Abs(b.num), a.den)
    IN  IF a.num = 0 \/ b.num = 0 THEN RInt(0)
        ELSE [num |-> (a.num \div g1) * (b.num \div g2),
              den |-> (a.den \div g2) * (b.den \div g1)]

\* a / b, b # 0
RDiv(a, b) == RMul(a, Rat(b.den, b.num))

RLess(a, b) == a.num * b.den < b.num * a.den

---------------------------------------------------------------------------
(* get_weekly_info *)

\* the key of a week: '{0}-0{1}' below week 10, '{0}-{1}' otherwise
WeeklyKey(yr, week) ==
    IF week < 10
    THEN IntToStr(yr) \o <<DashChar, ZeroChar>> \o IntToStr(week)
    ELSE IntToStr(yr) \o <<DashChar>> \o IntToStr(week)

\* a variant of TallyAdd that stores the last duration instead of adding it
TallyAddLastTime(week_tally, activity, time_delta) ==
    IF activity \notin DOMAIN week_tally
    THEN [count |-> 1, time |-> time_delta]
    ELSE [count |-> week_tally[activity].count + 1, time |-> time_delta]

\* the tally of one activity after one more interval of time_delta seconds
TallyAdd(week_tally, activity, time_delta) ==
    IF activity \notin DOMAIN week_tally
    THEN [count |-> 1, time |-> time_delta]
    ELSE [count |-> week_tally[activity].count + 1,
          time  |-> week_tally[activity].time + time_delta]

\* the body of the loop of get_weekly_info for the tuple t
WeeklyAdd(info, t) ==
    LET weekly_key == WeeklyKey(t.year, t.week)
        week_tally == IF weekly_key \in DOMAIN info THEN info[weekly_key] ELSE EmptyDict
    IN  DictSet(info, weekly_key,
                DictSet(week_tally, t.activity, TallyAdd(week_tally, t.activity, t.time_delta)))

\* the loop of get_weekly_info over the tuples ts[i..]
RECURSIVE WeeklyFold(_, _, _)
WeeklyFold(ts, i, info) ==
    IF i > Len(ts) THEN info
    ELSE WeeklyFold(ts, i + 1, WeeklyAdd(info, ts[i]))

\* get_weekly_info, given the tuples get_activity_timings() yields
WeeklyInfo(ts) == WeeklyFold(ts, 1, EmptyDict)

---------------------------------------------------------------------------
(* get_wow_changes *)

\* a variant of ComputeWeeksAgoIndex that wraps the week and keeps the year
ComputeWeeksAgoIndexSameYear(cur_week_index, n) ==
    LET parts     == SplitDash(cur_week_index)
        prev_week == StrToInt(parts[2]) - n
    IN  IF prev_week < 1
        THEN parts[1] \o <<DashChar>> \o IntToStr(52 + prev_week)
        ELSE parts[1] \o <<DashChar>> \o IntToStr(prev_week)

\* compute_weeks_ago_index
ComputeWeeksAgoIndex(cur_week_index, n) ==
    LET parts        == SplitDash(cur_week_index)
        current_yr   == parts[1]
        current_week == parts[2]
        prev_week    == StrToInt(current_week) - n
    IN  IF prev_week < 1
        THEN IntToStr(StrToInt(current_yr) - 1) \o <<DashChar>> \o IntToStr(52 + prev_week)
        ELSE current_yr \o <<DashChar>> \o IntToStr(prev_week)

\* one round of the first loop of get_previous_weekly_tally: acc holds
\* previous_weekly_tally (sums) and active_week_count
PreviousTallyAdd(acc, week_index, info) ==
    IF week_index \notin DOMAIN info THEN acc
    ELSE LET week_tally == info[week_index]
             acts       == (DOMAIN acc.tally) \cup (DOMAIN week_tally)
         IN  [tally |->
                [a \in acts |->
                    IF a \notin DOMAIN week_tally THEN acc.tally[a]
                    ELSE IF a \in DOMAIN acc.tally
                    THEN [count |-> acc.tally[a].count + week_tally[a].count,
                          time  |-> acc.tally[a].time + week_tally[a].time]
                    ELSE [count |-> week_tally[a].count, time |-> week_tally[a].time]],
              active_week_count |->
                [a \in acts |->
                    IF a \notin DOMAIN week_tally THEN acc.active_week_count[a]
                    ELSE IF a \in DOMAIN acc.tally
                    THEN acc.active_week_count[a] + 1
                    ELSE 1]]

\* for i in range(weeks_ago)
RECURSIVE PreviousTallySums(_, _, _, _, _)
PreviousTallySums(n, cur_week, info, i, acc) ==
    IF i >= n THEN acc
    ELSE PreviousTallySums(n, cur_week, info, i + 1,
            PreviousTallyAdd(acc, ComputeWeeksAgoIndex(cur_week, i + 1), info))

\* the divisor of the rolling average of one activity
AverageDivisor(n, active) == active

GetPreviousWeeklyTally(n, cur_week, info) ==
    LET acc == PreviousTallySums(n, cur_week, info, 0,
                                 [tally |-> EmptyDict, active_week_count |-> EmptyDict])
    IN  [a \in DOMAIN acc.tally |->
            [count |-> Rat(acc.tally[a].count, AverageDivisor(n, acc.active_week_count[a])),
             time  |-> Rat(acc.tally[a].time, AverageDivisor(n, acc.active_week_count[a]))]]

\* 100.0 * (cur - prev) / prev
PercentChange(cur, prev) == RDiv(RMul(RInt(100), RSub(RInt(cur), prev)), prev)

\* if prev >= 1.0: wow_count = ...
WowCount(cur, prev) ==
    IF ~RLess(prev, RInt(1)) THEN PercentChange(cur, prev) ELSE RInt(0)

\* a variant of WowTime with the guard of WowCount
WowTimeGuardAtLeastOne(cur, prev) ==
    IF ~RLess(prev, RInt(1)) THEN PercentChange(cur, prev) ELSE RInt(0)

\* if prev > 1: wow_time = ...
WowTime(cur, prev) ==
    IF RLess(RInt(1), prev) THEN PercentChange(cur, prev) ELSE RInt(0)

\* the record of one activity of one week
WowEntry(n, week, activity, info) ==
    LET previous_weekly_tally == GetPreviousWeeklyTally(n, week, info)
    IN  IF activity \in DOMAIN previous_weekly_tally
        THEN [wow_count |-> WowCount(info[week][activity].count,
                                     previous_weekly_tally[activity].count),
              wow_time  |-> WowTime(info[week][activity].time,
                                    previous_weekly_tally[activity].time)]
        ELSE [wow_count |-> RInt(0), wow_time |-> RInt(0)]

\* a variant of HasTrendRecord that skips one week less
HasTrendRecordAtLeast(cnt, n) == cnt >= n

\* if cnt > weeks_ago, cnt the zero-based position of the week
HasTrendRecord(cnt, n) == cnt > n

\* the loop of get_wow_changes over the tally info
WowChanges(n, info) ==
    LET weeks == SortedKeys(DOMAIN info)
    IN  [week \in {weeks[i] : i \in {j \in 1..Len(weeks) : HasTrendRecord(j - 1, n)}} |->
            [activity \in DOMAIN info[week] |-> WowEntry(n, week, activity, info)]]

---------------------------------------------------------------------------
(* daily_statistics *)

\* NUM_TO_DAY_MAP.keys()
Days == 1..7

\* a variant of NewDay that counts a day at every interval
NewDayAtEveryInterval(current_day, day_of_week) == TRUE

\* whether the loop counts a new day at an interval on day_of_week
NewDay(current_day, day_of_week) == day_of_week # current_day

\* the body of the loop of daily_statistics: acc holds daily_statistics
\* and current_day
DailyAdd(acc, t) ==
    LET d   == t.day_of_week
        old == acc.stats[d]
        new == [context_switches |-> old.context_switches + 1,
                day_cnts         |-> IF NewDay(acc.current_day, d)
                                     THEN old.day_cnts + 1 ELSE old.day_cnts,
                total_time       |-> old.total_time + t.time_delta,
                per_activity     |->
                    DictSet(old.per_activity, t.activity,
                        IF t.activity \notin DOMAIN old.per_activity
                        THEN [total_time |-> t.time_delta, cnt |-> 1]
                        ELSE [total_time |-> old.per_activity[t.activity].total_time + t.time_delta,
                              cnt        |-> old.per_activity[t.activity].cnt + 1])]
    IN  [stats |-> [x \in Days |-> IF x = d THEN new ELSE acc.stats[x]],
         current_day |-> d]

RECURSIVE DailyFold(_, _, _)
DailyFold(ts, i, acc) ==
    IF i > Len(ts) THEN acc
    ELSE DailyFold(ts, i + 1, DailyAdd(acc, ts[i]))

\* daily_statistics, given the tuples get_activity_timings() yields
DailyStatistics(ts) ==
    DailyFold(ts, 1,
              [stats |-> [d \in Days |-> [context_switches |-> 0, day_cnts |-> 0,
                                          total_time |-> 0, per_activity |-> EmptyDict]],
               current_day |-> 0]).stats

---------------------------------------------------------------------------
(* get_overall_actitivity_info *)

\* a variant of NewDayOfWeek that compares the day only
NewDayOfWeekDayOnly(current_day, current_week, day_of_week, week) ==
    day_of_week # current_day

\* if day_of_week != current_day or week != current_week
NewDayOfWeek(current_day, current_week, day_of_week, week) ==
    day_of_week # current_day \/ week # current_week

\* day_of_week in range(1, 6)
IsWeekday(day_of_week) == day_of_week \in 1..5

\* the body of the loop of get_overall_actitivity_info: acc holds activities,
\* activity_cnts, total, current_day and current_week
OverallAdd(acc, t) ==
    LET old == IF t.activity \in DOMAIN acc.activities
               THEN acc.activities[t.activity]
               ELSE [total_time |-> 0, weekday_timings |-> <<>>, weekday_count |-> 0,
                     weekend_timings |-> <<>>, weekend_count |-> 0]
        new == IF IsWeekday(t.day_of_week)
               THEN [old EXCEPT !.total_time = @ + t.time_delta,
                                !.weekday_timings = Append(@, t.time_delta),
                                !.weekday_count = @ + 1]
               ELSE [old EXCEPT !.total_time = @ + t.time_delta,
                                !.weekend_timings = Append(@, t.time_delta),
                                !.weekend_count = @ + 1]
        fresh == NewDayOfWeek(acc.current_day, acc.current_week, t.day_of_week, t.week)
    IN  [activities   |-> DictSet(acc.activities, t.activity, new),
         counts       |->
            [weekday_cnt |-> IF IsWeekday(t.day_of_week) /\ fresh
                             THEN acc.counts.weekday_cnt + 1 ELSE acc.counts.weekday_cnt,
             weekend_cnt |-> IF ~IsWeekday(t.day_of_week) /\ fresh
                             THEN acc.counts.weekend_cnt + 1 ELSE acc.counts.weekend_cnt],
         total        |-> acc.total + t.time_delta,
         current_day  |-> IF fresh THEN t.day_of_week ELSE acc.current_day,
         current_week |-> IF fresh THEN t.week ELSE acc.current_week]

RECURSIVE OverallFold(_, _, _)
OverallFold(ts, i, acc) ==
    IF i > Len(ts) THEN acc
    ELSE OverallFold(ts, i + 1, OverallAdd(acc, ts[i]))

\* the state of get_overall_actitivity_info after its first loop
OverallTotals(ts) ==
    OverallFold(ts, 1,
                [activities |-> EmptyDict,
                 counts |-> [weekday_cnt |-> 0, weekend_cnt |-> 0],
                 total |-> 0, current_day |-> -1, current_week |-> -1])

\* whether activities[activity]['total_time']*100.0/total divides by zero
OverallFaults(ts) ==
    LET acc == OverallTotals(ts)
    IN  DOMAIN acc.activities # {} /\ acc.total = 0

\* get_overall_actitivity_info, given the tuples get_activity_timings() yields
\* and no division by zero
OverallActivityInfo(ts) ==
    LET acc == OverallTotals(ts)
    IN  [activities |->
            [a \in DOMAIN acc.activities |->
                [total_time        |-> acc.activities[a].total_time,
                 weekday_timings   |-> acc.activities[a].weekday_timings,
                 weekday_count     |-> acc.activities[a].weekday_count,
                 weekend_timings   |-> acc.activities[a].weekend_timings,
                 weekend_count     |-> acc.activities[a].weekend_count,
                 percentage_totals |-> Rat(acc.activities[a].total_time * 100, acc.total)]],
         counts |-> acc.counts]

---------------------------------------------------------------------------
(* get_activity_statistics *)

\* sum(timing_list)
RECURSIVE SeqSum(_)
SeqSum(timing_list) ==
    IF timing_list = <<>> THEN 0
    ELSE Head(timing_list) + SeqSum(Tail(timing_list))

\* the sorted list with one more value inserted
RECURSIVE InsertSorted(_, _)
InsertSorted(sorted, v) ==
    IF sorted = <<>> THEN <<v>>
    ELSE IF v <= Head(sorted) THEN <<v>> \o sorted
    ELSE <<Head(sorted)>> \o InsertSorted(Tail(sorted), v)

\* sorted(timing_list)
RECURSIVE Sorted(_)
Sorted(timing_list) ==
    IF timing_list = <<>> THEN <<>>
    ELSE InsertSorted(Sorted(Tail(timing_list)), Head(timing_list))

\* average_mins: int(sum(timing_list) / cnt / 60.0), integer division first
AverageMins(timing_list) ==
    LET cnt == Len(timing_list)
    IN  IF cnt = 0 THEN 0
        ELSE (SeqSum(timing_list) \div cnt) \div 60

\* a variant of MediumMins that takes the lower middle of the sorted list
MediumMinsLowerMiddle(timing_list) ==
    LET cnt == Len(timing_list)
    IN  IF cnt = 0 THEN 0
        ELSE Sorted(timing_list)[((cnt - 1) \div 2) + 1] \div 60

\* medium_mins: int(sorted(timing_list)[mid] / 60.0) with mid = int(cnt/2);
\* Python's index mid is position mid + 1 of the sequence
MediumMins(timing_list) ==
    LET cnt == Len(timing_list)
    IN  IF cnt = 0 THEN 0
        ELSE LET mid == cnt \div 2
             IN  Sorted(timing_list)[mid + 1] \div 60

\* the rows of the weekday table: count, average and medium per activity
WeekdayRows(activities) ==
    [a \in DOMAIN activities |->
        [cnt     |-> activities[a].weekday_count,
         average |-> AverageMins(activities[a].weekday_timings),
         medium  |-> MediumMins(activities[a].weekday_timings)]]

\* the rows of the weekend table
WeekendRows(activities) ==
    [a \in DOMAIN activities |->
        [cnt     |-> activities[a].weekend_count,
         average |-> AverageMins(activities[a].weekend_timings),
         medium  |-> MediumMins(activities[a].weekend_timings)]]

\* total_work_time += sum(...) over the activities of S
RECURSIVE WorkTimeOver(_, _)
WorkTimeOver(timings_of, S) ==
    IF S = {} THEN 0
    ELSE LET a == CHOOSE x \in S : TRUE
         IN  SeqSum(timings_of[a]) + WorkTimeOver(timings_of, S \ {a})

\* total_work_time after the loop over the weekday rows
WeekdayWorkTime(activities) ==
    WorkTimeOver([a \in DOMAIN activities |-> activities[a].weekday_timings],
                 DOMAIN activities)

\* total_work_time after the loop over the weekend rows
WeekendWorkTime(activities) ==
    WorkTimeOver([a \in DOMAIN activities |-> activities[a].weekend_timings],
                 DOMAIN activities)

\* int(total_work_time / cnt / 60), for cnt # 0
AverageWorkDay(total_work_time, cnt) == (total_work_time \div cnt) \div 60

\* what get_activity_statistics prints, given the result of
\* get_overall_actitivity_info: the values handed to print, up to the line
\* that divides by a day counter of zero
ActivityStatistics(info) ==
    LET activities == info.activities
        counts     == info.counts
        weekday    == [weekday_rows |-> WeekdayRows(activities),
                       weekday_days |-> counts.weekday_cnt]
        weekend    == [weekend_rows |-> WeekendRows(activities),
                       weekend_days |-> counts.weekend_cnt]
    IN  IF counts.weekday_cnt = 0
        THEN [printed |-> <<weekday>>, fault |-> "ZeroDivisionError"]
        ELSE LET weekday_average ==
                    AverageWorkDay(WeekdayWorkTime(activities), counts.weekday_cnt)
             IN  IF counts.weekend_cnt = 0
                 THEN [printed |-> <<weekday, weekday_average, weekend>>,
                       fault |-> "ZeroDivisionError"]
                 ELSE [printed |-> <<weekday, weekday_average, weekend,
                                     AverageWorkDay(WeekendWorkTime(activities),
                                                    counts.weekend_cnt)>>,
                       fault |-> "none"]

---------------------------------------------------------------------------
(* get_daily_statistics *)

\* the activity names of the report: the keys of every day's entry
ReportActivities(stats) == UNION {DOMAIN stats[day].per_activity : day \in Days}

\* whether the percentage of an activity on a day divides by zero: the
\* KeyError of an activity missing from the day comes first
PercentageFaults(stats, day) ==
    stats[day].per_activity # EmptyDict /\ stats[day].total_time = 0

\* the percentages of a day: 100.0 * time of the activity / time of the
\* day, and 0.0 on KeyError
Percentages(stats, day) ==
    [a \in ReportActivities(stats) |->
        IF a \in DOMAIN stats[day].per_activity
        THEN Rat(100 * stats[day].per_activity[a].total_time, stats[day].total_time)
        ELSE RInt(0)]

\* ctx_sw and work_tm of a day with day_cnts # 0
DayAverages(stats, day) ==
    [ctx_sw  |-> Rat(stats[day].context_switches, stats[day].day_cnts),
     work_tm |-> Rat(stats[day].total_time, stats[day].day_cnts * 60)]

\* the loop over NUM_TO_DAY_MAP.keys() from a day on: rows holds what the
\* earlier days printed
RECURSIVE DailyReportFrom(_, _, _)
DailyReportFrom(stats, day, rows) ==
    IF day \notin Days THEN [printed |-> rows, fault |-> "none"]
    ELSE IF PercentageFaults(stats, day)
    THEN [printed |-> rows, fault |-> "ZeroDivisionError"]
    ELSE IF stats[day].day_cnts = 0
    THEN [printed |-> Append(rows, [percentage |-> Percentages(stats, day)]),
          fault |-> "ZeroDivisionError"]
    ELSE DailyReportFrom(stats, day + 1,
             Append(rows, [percentage |-> Percentages(stats, day),
                           averages   |-> DayAverages(stats, day)]))

\* what get_daily_statistics prints, given the result of daily_statistics
DailyReport(stats) == DailyReportFrom(stats, 1, <<>>)

---------------------------------------------------------------------------
(* get_activities_in_localtime *)

DaysInMonth(y, m) ==
    IF m = 2 /\ IsLeap(y) THEN 29
    ELSE <<31, 28, 31, 30, 31, 30, 31, 31, 30, 31, 30, 31>>[m]

\* whether datetime.strptime(ts, LOG_TIMESTAMP_FORMAT) returns: exact for
\* strings that hold a character other than a digit and for strings of 14
\* or more characters, the strings of LoaderStamps
StrptimeParses(ts) ==
    /\ Len(ts) = 14
    /\ \A i \in 1..Len(ts) : ts[i] \in ZeroChar..(ZeroChar + 9)
    /\ LET dt == Strptime(ts)
       IN  /\ dt.year >= 1
           /\ dt.month \in 1..12
           /\ dt.day \in 1..DaysInMonth(dt.year, dt.month)
           /\ dt.hour \in 0..23
           /\ dt.minute \in 0..59
           /\ dt.second \in 0..61

\* the date of a proleptic Gregorian ordinal that lies in year y - 1, y or y + 1
Ord2Ymd(n, y) ==
    LET yr == CHOOSE x \in (y - 1)..(y + 1) :
                  DaysBeforeYear(x) < n /\ n <= DaysBeforeYear(x + 1)
        mo == CHOOSE m \in 1..12 :
                  /\ DaysBeforeMonth(yr, m) < n - DaysBeforeYear(yr)
                  /\ n - DaysBeforeYear(yr) <= DaysBeforeMonth(yr, m) + DaysInMonth(yr, m)
    IN  <<yr, mo, n - DaysBeforeYear(yr) - DaysBeforeMonth(yr, mo)>>

\* utc_ts.replace(tzinfo=from_zone).astimezone(to_zone) for a zone that is
\* `zone` hours east of UTC
AsTimezone(utc_ts, zone) ==
    LET total == SecondOfDay(utc_ts) + zone * 3600
        ymd   == Ord2Ymd(Ymd2Ord(utc_ts.year, utc_ts.month, utc_ts.day) + (total \div 86400),
                         utc_ts.year)
        secs  == total % 86400
    IN  Stamp(ymd[1], ymd[2], ymd[3], secs \div 3600, (secs % 3600) \div 60, secs % 60)

\* the body of the loop over the lines: acc holds localtime_activities, the
\* number of diagnostics printed and the exception raised, if any. A
\* timestamp that does not parse prints the diagnostic and then calls
\* sys.exc_traceback, which is not callable: the TypeError leaves the
\* handler and the function
LoadLine(acc, line, zone) ==
    IF acc.fault # "none" THEN acc
    ELSE IF ~StrptimeParses(line.ts)
    THEN [acc EXCEPT !.diagnostics = @ + 1, !.fault = "TypeError"]
    ELSE [acc EXCEPT !.activities =
              DictSet(@, Strftime(AsTimezone(Strptime(line.ts), zone)), line.activity)]

RECURSIVE LoadLines(_, _, _, _)
LoadLines(lines, i, acc, zone) ==
    IF i > Len(lines) THEN acc
    ELSE LoadLines(lines, i + 1, LoadLine(acc, lines[i], zone), zone)

\* the lines of the files, in the order of os.listdir
RECURSIVE AllLines(_)
AllLines(files) ==
    IF files = <<>> THEN <<>>
    ELSE Head(files) \o AllLines(Tail(files))

\* get_activities_in_localtime over the files
GetActivitiesInLocaltime(files, zone) ==
    LoadLines(AllLines(files), 1,
              [activities |-> EmptyDict, diagnostics |-> 0, fault |-> "none"], zone)

\* UTC timestamps of log lines: two that parse, either side of new year,
\* one with a '-' after the year and one of month 13
LoaderStamps ==
    LET new_year_eve == Strftime(Stamp(2023, 12, 31, 23, 30, 0))
        new_year_day == Strftime(Stamp(2024, 1, 1, 2, 0, 0))
    IN  {new_year_eve, new_year_day,
         SubSeq(new_year_day, 1, 4) \o <<DashChar>> \o SubSeq(new_year_day, 6, 14),
         SubSeq(new_year_day, 1, 4) \o ZeroPad(13, 2) \o SubSeq(new_year_day, 7, 14)}

\* the lines "<timestamp> <activity>\n" a log file may hold, split at the space
LoaderLines == [ts : LoaderStamps, activity : {"Coding", "Off"}]

\* local zones of the machine that runs the loader, in hours east of UTC
LocalZones == {-5, 0, 1}

---------------------------------------------------------------------------
(* The state machine *)

Init ==
    /\ \E lo \in 1..(Len(LogTimes) + 1), n \in 0..MaxEvents :
          /\ \E p \in Periods : lo..(lo + n - 1) \subseteq p
          /\ localtime_activities \in
                [{Strftime(LogTimes[i]) : i \in lo..(lo + n - 1)} -> Activities]
    /\ entry = "none"
    /\ filter_off = TRUE
    /\ weeks_ago = 1
    /\ timings = <<>>
    /\ warnings = 0
    /\ weekly_info = EmptyDict
    /\ wow_change = EmptyDict
    /\ daily_stats = EmptyDict
    /\ overall_info = EmptyDict
    /\ report = <<>>
    /\ fault = "none"
    /\ log_files = <<>>
    /\ to_zone = 0
    /\ diagnostics = 0
    /\ sample_list = <<>>
    /\ medium = 0

CallGetActivityTimings ==
    /\ entry = "none"
    /\ \E f \in BOOLEAN :
          /\ filter_off' = f
          /\ timings' = GetActivityTimings(localtime_activities, f)
    /\ warnings' = LongIntervalWarnings(timings')
    /\ entry' = "get_activity_timings"
    /\ UNCHANGED <<localtime_activities, weeks_ago, weekly_info, wow_change, daily_stats>>
    /\ UNCHANGED <<overall_info, report, fault, other_vars>>

\* get_activity_timings() as the aggregations call it: filter_off defaults to True
DefaultTimings == GetActivityTimings(localtime_activities, TRUE)

CallGetWeeklyInfo ==
    /\ entry = "none"
    /\ weekly_info' = WeeklyInfo(DefaultTimings)
    /\ warnings' = LongIntervalWarnings(DefaultTimings)
    /\ entry' = "get_weekly_info"
    /\ UNCHANGED <<localtime_activities, filter_off, weeks_ago, timings, wow_change, daily_stats>>
    /\ UNCHANGED <<overall_info, report, fault, other_vars>>

CallGetWowChanges ==
    /\ entry = "none"
    /\ weekly_info' = WeeklyInfo(DefaultTimings)
    /\ \E n \in 1..MaxWeeksAgo :
          /\ weeks_ago' = n
          /\ wow_change' = WowChanges(n, weekly_info')
    /\ warnings' = LongIntervalWarnings(DefaultTimings)
    /\ entry' = "get_wow_changes"
    /\ UNCHANGED <<localtime_activities, filter_off, timings, daily_stats>>
    /\ UNCHANGED <<overall_info, report, fault, other_vars>>

CallDailyStatistics ==
    /\ entry = "none"
    /\ daily_stats' = DailyStatistics(DefaultTimings)
    /\ warnings' = LongIntervalWarnings(DefaultTimings)
    /\ entry' = "daily_statistics"
    /\ UNCHANGED <<localtime_activities, filter_off, weeks_ago, timings, weekly_info, wow_change>>
    /\ UNCHANGED <<overall_info, report, fault, other_vars>>

CallGetOverallActivityInfo ==
    /\ entry = "none"
    /\ IF OverallFaults(DefaultTimings)
       THEN fault' = "ZeroDivisionError" /\ overall_info' = overall_info
       ELSE fault' = "none" /\ overall_info' = OverallActivityInfo(DefaultTimings)
    /\ warnings' = LongIntervalWarnings(DefaultTimings)
    /\ entry' = "get_overall_actitivity_info"
    /\ UNCHANGED <<localtime_activities, filter_off, weeks_ago, timings, weekly_info,
                   wow_change, daily_stats, report, other_vars>>

CallGetActivityStatistics ==
    /\ entry = "none"
    /\ IF OverallFaults(DefaultTimings)
       THEN fault' = "ZeroDivisionError" /\ report' = report
       ELSE LET stats == ActivityStatistics(OverallActivityInfo(DefaultTimings))
            IN  fault' = stats.fault /\ report' = stats.printed
    /\ warnings' = LongIntervalWarnings(DefaultTimings)
    /\ entry' = "get_activity_statistics"
    /\ UNCHANGED <<localtime_activities, filter_off, weeks_ago, timings, weekly_info,
                   wow_change, daily_stats, overall_info, other_vars>>

CallGetDailyStatistics ==
    /\ entry = "none"
    /\ LET stats == DailyReport(DailyStatistics(DefaultTimings))
       IN  fault' = stats.fault /\ report' = stats.printed
    /\ warnings' = LongIntervalWarnings(DefaultTimings)
    /\ entry' = "get_daily_statistics"
    /\ UNCHANGED <<localtime_activities, filter_off, weeks_ago, timings, weekly_info,
                   wow_change, daily_stats, overall_info, other_vars>>

\* the loader before its call: up to MaxLines lines in two log files
InitLoader ==
    /\ \E n \in 0..MaxLines : \E lines \in [1..n -> LoaderLines] : \E k \in 0..n :
           log_files = <<SubSeq(lines, 1, k), SubSeq(lines, k + 1, n)>>
    /\ to_zone \in LocalZones
    /\ localtime_activities = EmptyDict
    /\ entry = "none"
    /\ filter_off = TRUE
    /\ weeks_ago = 1
    /\ timings = <<>>
    /\ warnings = 0
    /\ weekly_info = EmptyDict
    /\ wow_change = EmptyDict
    /\ daily_stats = EmptyDict
    /\ overall_info = EmptyDict
    /\ report = <<>>
    /\ fault = "none"
    /\ diagnostics = 0
    /\ sample_list = <<>>
    /\ medium = 0

CallGetActivitiesInLocaltime ==
    /\ entry = "none"
    /\ LET loaded == GetActivitiesInLocaltime(log_files, to_zone)
       IN  /\ fault' = loaded.fault
           /\ diagnostics' = loaded.diagnostics
           /\ localtime_activities' = IF loaded.fault = "none" THEN loaded.activities
                                      ELSE localtime_activities
    /\ entry' = "get_activities_in_localtime"
    /\ UNCHANGED <<filter_off, weeks_ago, timings, warnings, weekly_info, wow_change,
                   daily_stats, overall_info, report, log_files, to_zone,
                   sample_list, medium>>

NextLoader == CallGetActivitiesInLocaltime

SpecLoader == InitLoader /\ [][NextLoader]_vars

\* durations, in seconds, of the sample lists handed to medium_mins
SampleValues == {60, 90, 120, 180, 240}

\* medium_mins before its call: a sample list of up to MaxSamples durations
InitMedium ==
    /\ \E n \in 0..MaxSamples : sample_list \in [1..n -> SampleValues]
    /\ localtime_activities = EmptyDict
    /\ entry = "none"
    /\ filter_off = TRUE
    /\ weeks_ago = 1
    /\ timings = <<>>
    /\ warnings = 0
    /\ weekly_info = EmptyDict
    /\ wow_change = EmptyDict
    /\ daily_stats = EmptyDict
    /\ overall_info = EmptyDict
    /\ report = <<>>
    /\ fault = "none"
    /\ log_files = <<>>
    /\ to_zone = 0
    /\ diagnostics = 0
    /\ medium = 0

CallMediumMins ==
    /\ entry = "none"
    /\ medium' = MediumMins(sample_list)
    /\ entry' = "medium_mins"
    /\ UNCHANGED <<localtime_activities, filter_off, weeks_ago, timings, warnings,
                   weekly_info, wow_change, daily_stats, overall_info, report, fault,
                   log_files, to_zone, diagnostics, sample_list>>

NextMedium == CallMediumMins

SpecMedium == InitMedium /\ [][NextMedium]_vars

Next ==
    \/ CallGetActivityTimings
    \/ CallGetWeeklyInfo
    \/ CallGetWowChanges
    \/ CallDailyStatistics
    \/ CallGetOverallActivityInfo
    \/ CallGetActivityStatistics
    \/ CallGetDailyStatistics

Spec == Init /\ [][Next]_vars

---------------------------------------------------------------------------
(* Helpers of the properties *)

\* the ordered event stream of the log
Ordered == GetOrderedActivityTimestamps(localtime_activities)

\* number of events of the stream
NEvents == Cardinality(DOMAIN localtime_activities)

\* seconds from the event at position i to the event at position j
Gap(i, j) == TimeDelta(Strptime(Ordered[j][1]), Strptime(Ordered[i][1]))

\* the stream [(T0,"Off"), (T0+1h,"Coding"), (T0+3h,"Meetings"), (T0+4h,"Off")]
EndToEndScenario ==
    /\ NEvents = 4
    /\ Ordered[1][2] = "Off" /\ Ordered[2][2] = "Coding"
    /\ Ordered[3][2] = "Meetings" /\ Ordered[4][2] = "Off"
    /\ Gap(1, 2) = 3600 /\ Gap(1, 3) = 3 * 3600 /\ Gap(1, 4) = 4 * 3600

---------------------------------------------------------------------------
(* C1 *)

\* C1 as stated: the end-to-end stream with filter_off = true yields exactly
\* one interval, of activity "Coding" and duration 7200 seconds.
C1_OneCodingInterval ==
    (entry = "get_activity_timings" /\ filter_off /\ EndToEndScenario)
        => /\ Len(timings) = 1
           /\ timings[1].activity = "Coding"
           /\ timings[1].time_delta = 7200

\* C1 as amended: the end-to-end stream with filter_off = true yields exactly
\* two intervals, newest first: "Meetings" of 3600 seconds (from T0+3h to the
\* closing "Off" event), then "Coding" of 7200 seconds; the only pair left
\* out is the oldest one, which starts with "Off".
C1_MeetingsThenCoding ==
    (entry = "get_activity_timings" /\ filter_off /\ EndToEndScenario)
        => /\ Len(timings) = 2
           /\ timings[1].activity = "Meetings" /\ timings[1].time_delta = 3600
           /\ timings[2].activity = "Coding" /\ timings[2].time_delta = 7200

C1_Witness ==
    /\ entry = "get_activity_timings" /\ filter_off /\ EndToEndScenario
    /\ Len(timings) = 2

---------------------------------------------------------------------------
(* C2 *)

\* C2: for a stream of N >= 2 events and either value of filter_off, at most
\* N - 2 intervals are yielded, every duration is >= 0, and the intervals come
\* in strictly descending order of their ending timestamp.
C2_AtMostNMinus2NewestFirst ==
    (entry = "get_activity_timings" /\ NEvents >= 2)
        => /\ Len(timings) <= NEvents - 2
           /\ \A i \in 1..Len(timings) : timings[i].time_delta >= 0
           /\ \A i, j \in 1..Len(timings) :
                 i < j => TimeDelta(Strptime(timings[i].end_ts),
                                    Strptime(timings[j].end_ts)) > 0

C2_Witness ==
    /\ entry = "get_activity_timings"
    /\ NEvents >= 4
    /\ Len(timings) = NEvents - 2

---------------------------------------------------------------------------
(* C3 *)

\* whether the pair of the events at positions x and x + 1 was yielded
PairYielded(x) ==
    \E i \in 1..Len(timings) :
        /\ timings[i].end_ts = Ordered[x + 1][1]
        /\ timings[i].activity = Ordered[x][2]
        /\ timings[i].time_delta = Gap(x, x + 1)

\* C3: with filter_off = true no yielded interval has activity "Off": of the
\* adjacent pairs the walk visits (all but the oldest), those starting with
\* "Off" are dropped and all others are yielded, also when they end with
\* "Off"; with filter_off = false every visited pair is yielded.
C3_OffStartsDropped ==
    entry = "get_activity_timings"
        => /\ filter_off => \A i \in 1..Len(timings) : timings[i].activity # "Off"
           /\ \A x \in 2..(NEvents - 1) :
                 PairYielded(x) <=> (~filter_off \/ Ordered[x][2] # "Off")

C3_Witness ==
    /\ entry = "get_activity_timings" /\ filter_off
    /\ \E x \in 2..(NEvents - 1) :
          Ordered[x][2] # "Off" /\ Ordered[x + 1][2] = "Off" /\ PairYielded(x)
    /\ \E x \in 2..(NEvents - 1) : Ordered[x][2] = "Off" /\ ~PairYielded(x)

---------------------------------------------------------------------------
(* Helpers of the properties on weeks *)

\* the <<year, week>> a weekly key reads as
ParseWeekKey(k) ==
    LET parts == SplitDash(k)
    IN  <<StrToInt(parts[1]), StrToInt(parts[2])>>

\* n weeks before the week yw = <<year, week>>, with years of 52 weeks
StepBack(yw, n) ==
    IF yw[2] - n >= 1 THEN <<yw[1], yw[2] - n>>
    ELSE <<yw[1] - 1, 52 + (yw[2] - n)>>

\* sum of f[x] over the finite set S
RECURSIVE SumOver(_, _)
SumOver(f, S) ==
    IF S = {} THEN 0
    ELSE LET x == CHOOSE y \in S : TRUE
         IN  f[x] + SumOver(f, S \ {x})

\* the positions of the yielded intervals of a week and an activity
IntervalsOf(ts, yw, a) ==
    {i \in 1..Len(ts) : <<ts[i].year, ts[i].week>> = yw /\ ts[i].activity = a}

\* the keys of the tally for the weeks of the window of W that hold activity a
WindowWeeksWith(W, a) ==
    {k \in DOMAIN weekly_info :
        /\ \E i \in 1..weeks_ago : ParseWeekKey(k) = StepBack(ParseWeekKey(W), i)
        /\ a \in DOMAIN weekly_info[k]}

\* the rolling average get_wow_changes uses for week W
RollingAverage(W) == GetPreviousWeeklyTally(weeks_ago, W, weekly_info)

---------------------------------------------------------------------------
(* C4 *)

\* C4: after get_weekly_info, every key reads as one (year, week); for every
\* key and activity the entry exists exactly when an interval of that week and
\* activity was yielded, its count is the number of those intervals and its
\* time the sum of their durations; every interval's week has a key.
C4_WeeklyTallyCounts ==
    entry = "get_weekly_info"
        => LET ts == DefaultTimings
               durations == [i \in 1..Len(ts) |-> ts[i].time_delta]
           IN  /\ \A k \in DOMAIN weekly_info : \A a \in Activities :
                     LET S == IntervalsOf(ts, ParseWeekKey(k), a)
                     IN  /\ (a \in DOMAIN weekly_info[k]) <=> (S # {})
                         /\ S # {} => /\ weekly_info[k][a].count = Cardinality(S)
                                      /\ weekly_info[k][a].time = SumOver(durations, S)
               /\ \A k1, k2 \in DOMAIN weekly_info :
                     ParseWeekKey(k1) = ParseWeekKey(k2) => k1 = k2
               /\ \A i \in 1..Len(ts) : \E k \in DOMAIN weekly_info :
                     ParseWeekKey(k) = <<ts[i].year, ts[i].week>>

C4_Witness ==
    /\ entry = "get_weekly_info"
    /\ Cardinality(DOMAIN weekly_info) >= 2
    /\ \E k \in DOMAIN weekly_info : \E a \in DOMAIN weekly_info[k] :
          weekly_info[k][a].count >= 2

---------------------------------------------------------------------------
(* C5 *)

\* C5: for every week W with a trend record and every activity a of W, each
\* of the weeks_ago weeks before W that has data for a in the tally is the
\* week the code consults at that step, so a has a rolling average; also
\* when the week numbers are below 10.
C5_PrecedingWeeksContribute ==
    entry = "get_wow_changes"
        => \A W \in DOMAIN wow_change : \A a \in DOMAIN weekly_info[W] :
              \A i \in 1..weeks_ago : \A k \in DOMAIN weekly_info :
                  (ParseWeekKey(k) = StepBack(ParseWeekKey(W), i) /\ a \in DOMAIN weekly_info[k])
                      => /\ ComputeWeeksAgoIndex(W, i) = k
                         /\ a \in DOMAIN RollingAverage(W)

---------------------------------------------------------------------------
(* C6 *)

\* C6: stepping back n weeks from (year, week) gives (year, week - n) when
\* week - n >= 1 and (year - 1, 52 + (week - n)) otherwise; a wrapped week is
\* found in the tally when present; from (2024, 1) with weeks_ago = 2 the
\* weeks consulted are exactly (2023, 52) and (2023, 51).
C6_FixedWrap52 ==
    entry = "get_wow_changes"
        => \A W \in DOMAIN weekly_info :
              LET yw == ParseWeekKey(W)
              IN  /\ \A n \in 1..weeks_ago :
                        LET index == ComputeWeeksAgoIndex(W, n)
                        IN  /\ ParseWeekKey(index) = StepBack(yw, n)
                            /\ (yw[2] - n < 1 /\ 52 + (yw[2] - n) >= 10)
                                  => \A k \in DOMAIN weekly_info :
                                        ParseWeekKey(k) = StepBack(yw, n) => index = k
                  /\ (yw = <<2024, 1>> /\ weeks_ago = 2)
                        => {ParseWeekKey(ComputeWeeksAgoIndex(W, n)) : n \in 1..weeks_ago}
                              = {<<2023, 52>>, <<2023, 51>>}

C6_Witness ==
    /\ entry = "get_wow_changes" /\ weeks_ago = 2
    /\ \E W \in DOMAIN wow_change :
          /\ ParseWeekKey(W) = <<2024, 1>>
          /\ \A n \in 1..2 : ComputeWeeksAgoIndex(W, n) \in DOMAIN weekly_info
          /\ \E a \in DOMAIN wow_change[W] :
                /\ Cardinality(WindowWeeksWith(W, a)) = 2
                /\ wow_change[W][a].wow_time # RInt(0)

---------------------------------------------------------------------------
(* C7 *)

\* C7: get_wow_changes returns a record for exactly the weeks of the tally
\* whose zero-based position in ascending key order is greater than
\* weeks_ago, each with an entry for exactly the activities of that week;
\* with weeks_ago + 1 or fewer weeks the result is empty.
C7_RecordsAfterWarmUp ==
    entry = "get_wow_changes"
        => /\ DOMAIN wow_change =
                 {k \in DOMAIN weekly_info :
                     Cardinality({j \in DOMAIN weekly_info : LexLess(j, k)}) > weeks_ago}
           /\ \A k \in DOMAIN wow_change : DOMAIN wow_change[k] = DOMAIN weekly_info[k]
           /\ Cardinality(DOMAIN weekly_info) <= weeks_ago + 1 => DOMAIN wow_change = {}

C7_Witness ==
    /\ entry = "get_wow_changes"
    /\ Cardinality(DOMAIN weekly_info) = weeks_ago + 2
    /\ \E k \in DOMAIN wow_change : Cardinality(DOMAIN wow_change[k]) = 2

---------------------------------------------------------------------------
(* C8 *)

\* C8: for every emitted (week, activity) whose activity has a rolling
\* average, wow_count is 100 * (count - avg_count) / avg_count when
\* avg_count >= 1 and 0.0 otherwise, and wow_time is
\* 100 * (time - avg_time) / avg_time when avg_time > 1 and 0.0 otherwise;
\* neither value is clamped.
C8_PercentagesAndGuards ==
    entry = "get_wow_changes"
        => \A W \in DOMAIN wow_change : \A a \in DOMAIN wow_change[W] :
              a \in DOMAIN RollingAverage(W)
                  => LET avg == RollingAverage(W)[a]
                         cur == weekly_info[W][a]
                         wow == wow_change[W][a]
                     IN  /\ IF avg.count.num >= avg.count.den
                            THEN RMul(wow.wow_count, avg.count)
                                    = RMul(RInt(100), RSub(RInt(cur.count), avg.count))
                            ELSE wow.wow_count = RInt(0)
                         /\ IF avg.time.num > avg.time.den
                            THEN RMul(wow.wow_time, avg.time)
                                    = RMul(RInt(100), RSub(RInt(cur.time), avg.time))
                            ELSE wow.wow_time = RInt(0)

C8_Witness ==
    /\ entry = "get_wow_changes"
    /\ \E W \in DOMAIN wow_change : \E a \in DOMAIN wow_change[W] :
          /\ a \in DOMAIN RollingAverage(W)
          /\ RollingAverage(W)[a].count = RInt(1)
          /\ RollingAverage(W)[a].time = RInt(1)
          /\ wow_change[W][a].wow_count = RInt(100)
          /\ wow_change[W][a].wow_time = RInt(0)

---------------------------------------------------------------------------
(* C9 *)

\* C9: the rolling average of an activity is the sum of its (count, time)
\* over the window weeks that contain it, divided by the number of those
\* weeks; when no window week contains it, wow_count and wow_time are 0.0.
C9_AverageOverContainingWeeks ==
    entry = "get_wow_changes"
        => \A W \in DOMAIN wow_change : \A a \in DOMAIN wow_change[W] :
              LET weeks  == WindowWeeksWith(W, a)
                  counts == [k \in weeks |-> weekly_info[k][a].count]
                  times  == [k \in weeks |-> weekly_info[k][a].time]
              IN  IF weeks = {}
                  THEN wow_change[W][a] = [wow_count |-> RInt(0), wow_time |-> RInt(0)]
                  ELSE /\ a \in DOMAIN RollingAverage(W)
                       /\ RollingAverage(W)[a].count
                             = Rat(SumOver(counts, weeks), Cardinality(weeks))
                       /\ RollingAverage(W)[a].time
                             = Rat(SumOver(times, weeks), Cardinality(weeks))

---------------------------------------------------------------------------
(* C10 *)

\* C10: after daily_statistics, day_cnts[d] is the number of distinct
\* (day_of_week, iso_week) pairs with day_of_week = d among the intervals.
C10_DayCntsDistinctDays ==
    entry = "daily_statistics"
        => LET ts == DefaultTimings
           IN  \A d \in Days :
                  daily_stats[d].day_cnts =
                      Cardinality({<<ts[i].day_of_week, ts[i].week>> :
                                      i \in {j \in 1..Len(ts) : ts[j].day_of_week = d}})

---------------------------------------------------------------------------
(* C13 *)

\* the positions of ts that start a maximal run of consecutive intervals
\* with the same (day_of_week, iso_week)
DayWeekRunStarts(ts) ==
    {i \in 1..Len(ts) :
        i = 1 \/ <<ts[i].day_of_week, ts[i].week>> # <<ts[i - 1].day_of_week, ts[i - 1].week>>}

\* C13: in get_overall_actitivity_info a day counter is incremented exactly
\* when the interval's (day_of_week, iso_week) differs from the shared
\* cursor, weekday_cnt for days 1..5 and weekend_cnt for days 6 and 7; so
\* weekday_cnt + weekend_cnt is the number of maximal runs of consecutive
\* intervals with the same (day_of_week, iso_week), and each activity's
\* weekday_count + weekend_count is its number of intervals.
C13_SharedDayWeekCursor ==
    (entry = "get_overall_actitivity_info" /\ fault = "none")
        => LET ts     == DefaultTimings
               starts == DayWeekRunStarts(ts)
           IN  /\ overall_info.counts.weekday_cnt
                     = Cardinality({i \in starts : ts[i].day_of_week \in 1..5})
               /\ overall_info.counts.weekend_cnt
                     = Cardinality({i \in starts : ts[i].day_of_week \in 6..7})
               /\ overall_info.counts.weekday_cnt + overall_info.counts.weekend_cnt
                     = Cardinality(starts)
               /\ DOMAIN overall_info.activities = {ts[i].activity : i \in 1..Len(ts)}
               /\ \A a \in DOMAIN overall_info.activities :
                     overall_info.activities[a].weekday_count
                         + overall_info.activities[a].weekend_count
                       = Cardinality({i \in 1..Len(ts) : ts[i].activity = a})

C13_Witness ==
    /\ entry = "get_overall_actitivity_info" /\ fault = "none"
    /\ overall_info.counts.weekend_cnt >= 1
    /\ overall_info.counts.weekday_cnt >= 2
    /\ overall_info.counts.weekday_cnt + overall_info.counts.weekend_cnt
          < Len(DefaultTimings)

---------------------------------------------------------------------------
(* C11 *)

\* C11: no statistics or trend computation raises a division fault: with an
\* empty history, with a day of the week without intervals, with
\* weekday_cnt = 0 or weekend_cnt = 0, every ratio resolves to a default
\* and the run completes.
C11_NoDivisionFault ==
    /\ fault # "ZeroDivisionError"
    /\ entry = "get_activity_statistics" => Len(report) = 4
    /\ entry = "get_daily_statistics"
          => Len(report) = 7 /\ \A day \in Days : "averages" \in DOMAIN report[day]

---------------------------------------------------------------------------
(* C12 *)

\* the lines of the log files whose timestamp parses
WellFormedLines ==
    {i \in 1..Len(AllLines(log_files)) : StrptimeParses(AllLines(log_files)[i].ts)}

\* C12: a line whose timestamp does not parse contributes no entry, a
\* diagnostic is emitted for it and loading continues: every well-formed
\* line of every file is present in the result and the load never aborts
\* because of a bad line.
C12_BadLineSkipped ==
    entry = "get_activities_in_localtime"
        => LET lines == AllLines(log_files)
           IN  /\ fault = "none"
               /\ diagnostics = Len(lines) - Cardinality(WellFormedLines)
               /\ DOMAIN localtime_activities
                     = {Strftime(AsTimezone(Strptime(lines[i].ts), to_zone)) :
                           i \in WellFormedLines}

---------------------------------------------------------------------------
(* C14 *)

\* the list ts in the order the permutation p of its positions gives
Permuted(ts, p) == [i \in 1..Len(ts) |-> ts[p[i]]]

\* C14: weekly aggregation is order-independent: folding any permutation of
\* the same intervals with the accumulation of get_weekly_info gives the
\* same WeeklyTally, with the same keys, counts and times.
C14_WeeklyOrderIndependent ==
    entry = "get_weekly_info"
        => LET ts == DefaultTimings
           IN  \A p \in Permutations(1..Len(ts)) :
                   WeeklyInfo(Permuted(ts, p)) = weekly_info

C14_Witness ==
    /\ entry = "get_weekly_info"
    /\ Len(DefaultTimings) >= 3
    /\ Cardinality(DOMAIN weekly_info) >= 2
    /\ \E k \in DOMAIN weekly_info : \E a \in DOMAIN weekly_info[k] :
           /\ weekly_info[k][a].count >= 2
           /\ \E i, j \in 1..Len(DefaultTimings) :
                  /\ DefaultTimings[i].activity = a /\ DefaultTimings[j].activity = a
                  /\ DefaultTimings[i].week = DefaultTimings[j].week
                  /\ DefaultTimings[i].time_delta # DefaultTimings[j].time_delta

---------------------------------------------------------------------------
(* C15 *)

\* the number of samples of the list that are below v, and at most v
SamplesBelow(v) == Cardinality({i \in 1..Len(sample_list) : sample_list[i] < v})
SamplesUpTo(v) == Cardinality({i \in 1..Len(sample_list) : sample_list[i] <= v})

\* C15 as stated: the median of a non-empty sample list is the value at
\* index floor(count/2) of the ascending-sorted list, so that
\* [60, 120, 180, 240] yields 180, and an empty list yields 0.
C15_MedianIsSampleValue ==
    entry = "medium_mins"
        => /\ sample_list = <<>> => medium = 0
           /\ sample_list # <<>>
                 => /\ \E i \in 1..Len(sample_list) : medium = sample_list[i]
                    /\ SamplesBelow(medium) <= Len(sample_list) \div 2
                    /\ SamplesUpTo(medium) > Len(sample_list) \div 2
           /\ sample_list = <<60, 120, 180, 240>> => medium = 180

\* C15, amended: medium_mins returns the whole minutes of the value at
\* index floor(count/2) of the ascending-sorted list (the upper middle for
\* even sizes, never an interpolated value), so that [60, 120, 180, 240]
\* seconds yields 3, the minutes of 180; an empty list yields 0.
C15_MedianInWholeMinutes ==
    entry = "medium_mins"
        => /\ sample_list = <<>> => medium = 0
           /\ sample_list # <<>>
                 => \E i \in 1..Len(sample_list) :
                        /\ medium = sample_list[i] \div 60
                        /\ SamplesBelow(sample_list[i]) <= Len(sample_list) \div 2
                        /\ SamplesUpTo(sample_list[i]) > Len(sample_list) \div 2
           /\ sample_list = <<60, 120, 180, 240>> => medium = 3

C15_Witness ==
    /\ entry = "medium_mins"
    /\ sample_list = <<60, 120, 180, 240>>
    /\ medium = 3

---------------------------------------------------------------------------
(* C16 *)

\* the list ts from its last element to its first
Reversed(ts) == [i \in 1..Len(ts) |-> ts[Len(ts) + 1 - i]]

\* the positions of ts that start a maximal run of consecutive intervals
\* on the day d
DayRunStarts(ts, d) ==
    {i \in 1..Len(ts) :
        ts[i].day_of_week = d /\ (i = 1 \/ ts[i - 1].day_of_week # d)}

\* C16: daily_statistics gives day_cnts[d] equal to the number of maximal
\* runs of consecutive intervals with day_of_week = d, so folding the
\* intervals newest-first, as get_activity_timings delivers them, and
\* oldest-first give the same day_cnts, context_switches, total_time and
\* per-activity totals for every day.
C16_DayCntsDirectionFree ==
    entry = "daily_statistics"
        => LET ts == DefaultTimings
           IN  /\ \A d \in Days :
                      daily_stats[d].day_cnts = Cardinality(DayRunStarts(ts, d))
               /\ DailyStatistics(Reversed(ts)) = daily_stats

C16_Witness ==
    /\ entry = "daily_statistics"
    /\ \E d \in Days : daily_stats[d].day_cnts >= 2
    /\ Cardinality({d \in Days : daily_stats[d].day_cnts >= 1}) >= 2
    /\ Reversed(DefaultTimings) # DefaultTimings

====
